---- MODULE Spec2Model ----
(***************************************************************************)
(* Model of src/shredder/main.go: the exported entry point shred, which    *)
(* calls SecureShredFile and then removes the renamed file.                *)
(*                                                                         *)
(* The program is single threaded.  Every blocking call of the source      *)
(* (os.Stat, os.OpenFile, Seek, rand.Read, Write, Sync, Close, os.Truncate,*)
(* os.Rename, os.Remove) and every progress callback is one action; the    *)
(* variable pc is the position of the program between two such calls.      *)
(* Every call that returns an error in Go may fail here.                   *)
(*                                                                         *)
(* A file's content is a sequence of runs [len, kind]: len bytes that are  *)
(* all original bytes ("orig"), random bytes ("rand") or zero bytes        *)
(* ("zero").  A path is the sequence of its components, a component is the *)
(* sequence of its characters.                                             *)
(***************************************************************************)
EXTENDS Integers, Sequences, FiniteSets, TLC

(***************************************************************************)
(* Bounds of the model and input sets.                                     *)
(***************************************************************************)
MaxPasses == 3
MaxChunks == 3

chunkSize == 65536
randomBytesLen == 32

Remainders == {0, 1, 10, 18928, 65535}

Lengths ==
  {q * chunkSize + r : q \in 0..(MaxChunks - 1), r \in Remainders}
    \cup {MaxChunks * chunkSize}

Paths ==
  { << <<"a", ".", "t", "x", "t">> >>,
    << <<"h", "o", "m", "e">>, <<"k", "e", "y">> >> }

Timestamps == {1762300800, 1762300801}

RandomSources ==
  { [x \in 1..randomBytesLen |-> 0],
    [x \in 1..randomBytesLen |-> (x * 37) % 256] }

(***************************************************************************)
(* Arithmetic helpers.                                                     *)
(***************************************************************************)
Zeros(n) == [x \in 1..n |-> 0]

RECURSIVE Pow2(_)
Pow2(n) == IF n = 0 THEN 1 ELSE 2 * Pow2(n - 1)

RECURSIVE Pow10(_)
Pow10(n) == IF n = 0 THEN 1 ELSE 10 * Pow10(n - 1)

RECURSIVE BitsToInt(_)
BitsToInt(s) ==
  IF Len(s) = 0 THEN 0 ELSE 2 * BitsToInt(SubSeq(s, 1, Len(s) - 1)) + s[Len(s)]

IntToBits(v, b) == [x \in 1..b |-> (v \div Pow2(b - x)) % 2]

(***************************************************************************)
(* IEEE 754 binary64 arithmetic, as Go's float64 performs it.  A positive  *)
(* float is [m, e]: m is the 53 bit significand, most significant bit      *)
(* first, and the value is m * 2^e.  Integers of the model are 32 bit, so  *)
(* the significand is a bit sequence and is computed in blocks.            *)
(***************************************************************************)
Inc(s) ==
  IF \A x \in 1..Len(s) : s[x] = 1
  THEN <<1>> \o Zeros(Len(s))
  ELSE LET z == CHOOSE x \in 1..Len(s) :
                  s[x] = 0 /\ \A y \in (x + 1)..Len(s) : s[y] = 1
       IN  [x \in 1..Len(s) |-> IF x < z THEN s[x] ELSE IF x = z THEN 1 ELSE 0]

\* Round the bit sequence s (54 bits or more, s[1] = 1) to 53 bits, to
\* nearest, ties to even; sticky says that nonzero bits follow s.  The result
\* is m * 2^e in units of the last bit of s.
RoundNearestEven(s, sticky) ==
  LET n    == Len(s)
      keep == SubSeq(s, 1, 53)
      rest == sticky \/ \E x \in 55..n : s[x] = 1
      up   == s[54] = 1 /\ (rest \/ keep[53] = 1)
      r    == IF up THEN Inc(keep) ELSE keep
  IN  IF Len(r) = 54 THEN [m |-> SubSeq(r, 1, 53), e |-> n - 53 + 1]
                     ELSE [m |-> r, e |-> n - 53]

\* n blocks of 9 further quotient bits of r / t, r < t.
RECURSIVE DivBlocks(_, _, _, _)
DivBlocks(r, t, n, acc) ==
  IF n = 0 THEN [bits |-> acc, rem |-> r]
  ELSE DivBlocks((r * 512) % t, t, n - 1, acc \o IntToBits((r * 512) \div t, 9))

\* Scale k or t by a power of two so that t <= k < 2t.
RECURSIVE Normalize(_, _, _)
Normalize(k, t, s) ==
  IF k < t THEN Normalize(2 * k, t, s + 1)
  ELSE IF k >= 2 * t THEN Normalize(k, 2 * t, s - 1)
  ELSE [k |-> k, t |-> t, s |-> s]

\* float64(k) / float64(t) for positive integers k, t (both exact in float64).
Float64Div(k, t) ==
  LET nz == Normalize(k, t, 0)
      d  == DivBlocks(nz.k - nz.t, nz.t, 6, <<1>>)
      r  == RoundNearestEven(d.bits, d.rem # 0)
  IN  [m |-> r.m, e |-> r.e - nz.s - 54]

\* The significand s, in 8 bit limbs from the right, times c < 256.
RECURSIVE MulLimbs(_, _, _, _, _)
MulLimbs(s, idx, c, carry, acc) ==
  IF idx = 0 THEN IntToBits(carry, 8) \o acc
  ELSE LET v == BitsToInt(SubSeq(s, 8 * idx - 7, 8 * idx)) * c + carry
       IN  MulLimbs(s, idx - 1, c, v \div 256, IntToBits(v % 256, 8) \o acc)

\* f * float64(c) for an integer constant 1 <= c < 256.
Float64MulInt(f, c) ==
  LET p == MulLimbs(Zeros(3) \o f.m, 7, c, 0, <<>>)
      z == CHOOSE x \in 1..Len(p) : p[x] = 1 /\ \A y \in 1..(x - 1) : p[y] = 0
      r == RoundNearestEven(SubSeq(p, z, Len(p)) \o <<0>>, FALSE)
  IN  [m |-> r.m, e |-> f.e + r.e - 1]

\* int(f): truncation toward zero of a positive float below 2^31.
Float64ToInt(f) ==
  IF 53 + f.e <= 0 THEN 0 ELSE BitsToInt(SubSeq(f.m, 1, 53 + f.e))

\* int(float64(currentStep) / float64(totalSteps) * 100)
Percent(step, total) ==
  Float64ToInt(Float64MulInt(Float64Div(step, total), 100))

(***************************************************************************)
(* File contents.                                                          *)
(***************************************************************************)
Run(n, kind) == [len |-> n, kind |-> kind]

RECURSIVE Size(_)
Size(c) == IF c = <<>> THEN 0 ELSE c[1].len + Size(Tail(c))

\* The first n bytes of c.
RECURSIVE Take(_, _)
Take(c, n) ==
  IF n = 0 \/ c = <<>> THEN <<>>
  ELSE IF c[1].len <= n THEN <<c[1]>> \o Take(Tail(c), n - c[1].len)
  ELSE <<Run(n, c[1].kind)>>

\* c without its first n bytes.
RECURSIVE Drop(_, _)
Drop(c, n) ==
  IF c = <<>> THEN <<>>
  ELSE IF n = 0 THEN c
  ELSE IF c[1].len <= n THEN Drop(Tail(c), n - c[1].len)
  ELSE <<Run(c[1].len - n, c[1].kind)>> \o Tail(c)

\* Adjacent runs of one kind are one run; there is no empty run.
RECURSIVE Merge(_)
Merge(c) ==
  IF c = <<>> THEN <<>>
  ELSE IF c[1].len = 0 THEN Merge(Tail(c))
  ELSE IF Len(c) >= 2 /\ c[2].len = 0 THEN Merge(<<c[1]>> \o Tail(Tail(c)))
  ELSE IF Len(c) >= 2 /\ c[2].kind = c[1].kind
       THEN Merge(<<Run(c[1].len + c[2].len, c[1].kind)>> \o Tail(Tail(c)))
  ELSE <<c[1]>> \o Merge(Tail(c))

\* Faulty variant of WriteAt: the bytes are appended, as with os.O_APPEND.
WriteAtEnd(c, off, n, kind) == Merge(c \o <<Run(n, kind)>>)

\* The content after n bytes of the given kind are written at offset
\* off <= Size(c).
WriteAt(c, off, n, kind) ==
  Merge(Take(c, off) \o <<Run(n, kind)>> \o Drop(c, off + n))

(***************************************************************************)
(* Paths and the obfuscated file name.                                     *)
(***************************************************************************)
\* filepath.Dir: the path without its last component (<<>> is ".").
Dir(path) == SubSeq(path, 1, Len(path) - 1)

\* Faulty variant of Join: the directory is dropped.
JoinNameOnly(d, name) == <<name>>

\* filepath.Join(dir, name)
Join(d, name) == Append(d, name)

\* The alphabet of base64.URLEncoding.
Base64URLAlphabet ==
  << "A", "B", "C", "D", "E", "F", "G", "H", "I", "J", "K", "L", "M",
     "N", "O", "P", "Q", "R", "S", "T", "U", "V", "W", "X", "Y", "Z",
     "a", "b", "c", "d", "e", "f", "g", "h", "i", "j", "k", "l", "m",
     "n", "o", "p", "q", "r", "s", "t", "u", "v", "w", "x", "y", "z",
     "0", "1", "2", "3", "4", "5", "6", "7", "8", "9", "-", "_" >>

\* Bit p (from 1) of the byte sequence b, 0 beyond its end.
BitOf(b, p) ==
  IF p > 8 * Len(b) THEN 0
  ELSE (b[((p - 1) \div 8) + 1] \div Pow2(7 - ((p - 1) % 8))) % 2

\* base64.URLEncoding.WithPadding(base64.NoPadding).EncodeToString(b)
Base64URL(b) ==
  [x \in 1..((8 * Len(b) + 5) \div 6) |->
     Base64URLAlphabet[
       1 + BitsToInt([q \in 1..6 |-> BitOf(b, 6 * (x - 1) + q)])]]

\* The number of decimal digits of v >= 0.
RECURSIVE NumDigits(_)
NumDigits(v) == IF v < 10 THEN 1 ELSE 1 + NumDigits(v \div 10)

\* []byte(strconv.FormatInt(v, 10)) for v >= 0: the ASCII codes of the digits.
FormatInt(v) ==
  [x \in 1..NumDigits(v) |-> 48 + ((v \div Pow10(NumDigits(v) - x)) % 10)]

\* fmt.Sprintf("%s_%s", timestampEncoded, randomSuffix)
NewFileName(unix, randomBytes) ==
  Base64URL(FormatInt(unix)) \o <<"_">> \o Base64URL(randomBytes)

(***************************************************************************)
(* The chunk plan and the step count.                                      *)
(***************************************************************************)
\* Faulty variant of NumChunks: one window too many when the size is a multiple of
\* the chunk size.
NumChunksFloorPlusOne(size) ==
  IF size > 0 THEN (size \div chunkSize) + 1 ELSE 1

\* numChunks: 1 for an empty file, else ceil(fileSize / chunkSize).  The
\* float64 division by 2^16 is exact for every size below 2^53.
NumChunks(size) ==
  IF size > 0 THEN (size + chunkSize - 1) \div chunkSize ELSE 1

\* Faulty variant of BufferSize: the last window is not shortened.
BufferSizeFull(jj, size, chunks) == chunkSize

\* bufferSize of window jj.
BufferSize(jj, size, chunks) ==
  LET b == IF jj = chunks - 1 /\ size % chunkSize # 0
           THEN size % chunkSize ELSE chunkSize
  IN  IF b = 0 THEN chunkSize ELSE b

\* Faulty variant of TotalSteps: the windows of the zero pass are not counted.
TotalStepsRandomOnly(n, chunks) == n * chunks + 1

TotalSteps(n, chunks) == n * chunks + chunks

(***************************************************************************)
(* The state of one call of shred(path, count).                            *)
(***************************************************************************)
VARIABLES
  pc,          \* the position of the program
  filePath,    \* the argument path
  passes,      \* the argument count
  fs,          \* the file system: existing path -> content
  handle,      \* the *os.File of line 30: "none", "open" or "closed"
  pos,         \* the file offset of the handle
  fileSize,    \* fileInfo.Size() of line 22
  numChunks,
  totalSteps,
  currentStep,
  i,           \* the pass index of line 52
  j,           \* the window index of lines 58 and 95
  newPath,
  randomBytes, \* the 32 bytes of line 130
  unix,        \* time.Now().Unix() of line 137
  ret,         \* the result (bool, string, error) of SecureShredFile
  reported,    \* the percentages passed to progressCallback, in order
  trace,       \* the calls made so far, in order, with their outcome
  logs,        \* the messages logged so far, in order
  logFile,     \* the package variable of line 17: "nil" or a file
  logOutput,   \* the destination set by log.SetOutput
  logHandle    \* the file opened at line 196: "none", "open", "closed"

vars ==
  << pc, filePath, passes, fs, handle, pos, fileSize, numChunks, totalSteps,
     currentStep, i, j, newPath, randomBytes, unix, ret, reported, trace,
     logs, logFile, logOutput, logHandle >>

NoResult == [success |-> FALSE, path |-> <<>>, err |-> "pending"]

\* One call and its outcome.  tag tells calls of one kind apart: "rand" and
\* "zero" for the payload of a write, "name" for the random bytes of the new
\* name, "final" for the callback of line 151, "deferred" for the deferred
\* close and "ErrClosed" for a close of a closed handle.  pass is 1..passes
\* for a random pass and passes + 1 for the zero pass, win the window index;
\* len is the length asked for; val is the number of bytes written (write)
\* or the percentage (progress).
Ev(op, ok, tag, pass, win, off, len, val) ==
  [op |-> op, ok |-> ok, tag |-> tag, pass |-> pass, win |-> win,
   off |-> off, len |-> len, val |-> val]

Call(op, ok) == Ev(op, ok, "-", 0, 0, 0, 0, 0)

\* The pass in progress: i + 1 in the loop of line 52, passes + 1 after it.
Pass == i + 1

Exists(path) == path \in DOMAIN fs

\* The file system with the content of path replaced.
Store(path, c) == [fs EXCEPT ![path] = c]

\* Faulty variant of Renamed: the file is copied, the old name stays.
RenamedCopy(from, to) ==
  [p \in DOMAIN fs \cup {to} |-> IF p = to THEN fs[from] ELSE fs[p]]

\* The file system after os.Rename(from, to) succeeded.
Renamed(from, to) ==
  [p \in (DOMAIN fs \ {from}) \cup {to} |-> IF p = to THEN fs[from] ELSE fs[p]]

\* Faulty variant of Removed: the directory entry stays.
RemovedNothing(path) == fs

\* The file system after os.Remove(path) succeeded.
Removed(path) == [p \in DOMAIN fs \ {path} |-> fs[p]]

Init ==
  /\ pc = "stat"
  /\ filePath \in Paths
  /\ passes \in 0..MaxPasses
  /\ \/ fs = << >>
     \/ \E len \in Lengths :
          fs = [p \in {filePath} |-> Merge(<<Run(len, "orig")>>)]
  /\ handle = "none"
  /\ pos = 0
  /\ fileSize = 0
  /\ numChunks = 0
  /\ totalSteps = 0
  /\ currentStep = 0
  /\ i = 0
  /\ j = 0
  /\ newPath = << >>
  /\ randomBytes = << >>
  /\ unix = 0
  /\ ret = NoResult
  /\ reported = << >>
  /\ trace = << >>
  /\ logs = << >>
  /\ logFile = "nil"
  /\ logOutput = "stderr"
  /\ logHandle = "none"

\* Faulty variant of ReturnError: the failed call is made again.
ReturnErrorRetry(err) ==
  /\ ret' = [success |-> FALSE, path |-> << >>, err |-> err]
  /\ pc' = pc

\* return false, "", fmt.Errorf(...): the deferred close of lines 34-38 runs
\* when the file was opened.
ReturnError(err) ==
  /\ ret' = [success |-> FALSE, path |-> << >>, err |-> err]
  /\ pc' = IF handle = "none" THEN "shredCheck" ELSE "deferClose"

\* Faulty variant of AfterRandomChunk: the loop of line 52 ends after one pass.
AfterRandomChunkSinglePass ==
  IF j + 1 < numChunks
  THEN /\ j' = j + 1
       /\ i' = i
       /\ pc' = "randRead"
  ELSE /\ j' = j + 1
       /\ i' = i + 1
       /\ pc' = "seekZero"

\* The position after window j of random pass i is done (lines 52 and 58).
AfterRandomChunk ==
  IF j + 1 < numChunks
  THEN /\ j' = j + 1
       /\ i' = i
       /\ pc' = "randRead"
  ELSE /\ j' = j + 1
       /\ i' = i + 1
       /\ pc' = IF i + 1 < passes THEN "seekRandom" ELSE "seekZero"

\* Faulty variant of AfterZeroChunk: the zero pass ends after one window.
AfterZeroChunkFirstOnly ==
  /\ j' = j + 1
  /\ i' = i
  /\ pc' = "close"

\* The position after window j of the zero pass is done (line 95).
AfterZeroChunk ==
  /\ j' = j + 1
  /\ i' = i
  /\ pc' = IF j + 1 < numChunks THEN "writeZero" ELSE "close"

\* file.Write of n bytes of the given kind at the handle's offset; w bytes
\* are written.
WriteBytes(kind, n, w) ==
  /\ fs' = Store(filePath, WriteAt(fs[filePath], pos, w, kind))
  /\ pos' = pos + w
  /\ trace' = Append(trace, Ev("write", w = n, kind, Pass, j, pos, n, w))

\* progressCallback(int(float64(currentStep) / float64(totalSteps) * 100))
\* after currentStep++.
ReportStep ==
  /\ currentStep' = currentStep + 1
  /\ reported' = Append(reported, Percent(currentStep + 1, totalSteps))
  /\ trace' = Append(trace,
       Ev("progress", TRUE, "chunk", Pass, j, 0, 0,
          Percent(currentStep + 1, totalSteps)))

(***************************************************************************)
(* SecureShredFile, lines 21-155.                                          *)
(***************************************************************************)
\* Lines 22-28: os.Stat(filePath).
Stat ==
  /\ pc = "stat"
  /\ \/ /\ ~Exists(filePath)
        /\ trace' = Append(trace, Call("stat", FALSE))
        /\ ReturnError("file does not exist")
        /\ UNCHANGED fileSize
     \/ /\ Exists(filePath)
        /\ \E ok \in BOOLEAN :
             /\ trace' = Append(trace, Call("stat", ok))
             /\ IF ok
                THEN /\ fileSize' = Size(fs[filePath])
                     /\ pc' = "open"
                     /\ UNCHANGED ret
                ELSE /\ ReturnError("error getting file info")
                     /\ UNCHANGED fileSize
  /\ UNCHANGED << logFile, logOutput, logHandle, randomBytes, unix,
                  filePath, passes, fs, handle, pos, numChunks, totalSteps,
                  currentStep, i, j, newPath, reported, logs >>

\* Lines 30-50: os.OpenFile, the registration of the deferred close, and
\* the chunk plan.
Open ==
  /\ pc = "open"
  /\ \E ok \in BOOLEAN :
       /\ trace' = Append(trace, Call("open", ok))
       /\ IF ok
          THEN /\ handle' = "open"
               /\ numChunks' = NumChunks(fileSize)
               /\ totalSteps' = TotalSteps(passes, NumChunks(fileSize))
               /\ pc' = IF 0 < passes THEN "seekRandom" ELSE "seekZero"
               /\ UNCHANGED ret
          ELSE /\ ReturnError("no write permission or error opening file")
               /\ UNCHANGED << handle, numChunks, totalSteps >>
  /\ UNCHANGED << logFile, logOutput, logHandle, randomBytes, unix,
                  filePath, passes, fs, pos, fileSize, currentStep, i, j,
                  newPath, reported, logs >>

\* Faulty variant of SeekRandom: the offset is not reset.
SeekRandomKeepsOffset ==
  /\ pc = "seekRandom"
  /\ \E ok \in BOOLEAN :
       /\ trace' = Append(trace, Ev("seek", ok, "-", Pass, 0, 0, 0, 0))
       /\ IF ok
          THEN /\ j' = 0
               /\ pc' = IF 0 < numChunks THEN "randRead" ELSE "seekZero"
               /\ UNCHANGED ret
          ELSE /\ ReturnError("error seeking file")
               /\ UNCHANGED j
  /\ UNCHANGED << logFile, logOutput, logHandle, randomBytes, unix,
                  filePath, passes, fs, handle, pos, fileSize, numChunks,
                  totalSteps, currentStep, i, newPath, reported, logs >>

\* Lines 53-56: file.Seek(0, io.SeekStart) at the start of random pass i.
SeekRandom ==
  /\ pc = "seekRandom"
  /\ \E ok \in BOOLEAN :
       /\ trace' = Append(trace, Ev("seek", ok, "-", Pass, 0, 0, 0, 0))
       /\ IF ok
          THEN /\ pos' = 0
               /\ j' = 0
               /\ pc' = IF 0 < numChunks THEN "randRead" ELSE "seekZero"
               /\ UNCHANGED ret
          ELSE /\ ReturnError("error seeking file")
               /\ UNCHANGED << pos, j >>
  /\ UNCHANGED << logFile, logOutput, logHandle, randomBytes, unix,
                  filePath, passes, fs, handle, fileSize, numChunks,
                  totalSteps, currentStep, i, newPath, reported, logs >>

\* Lines 59-71: the buffer of window j and rand.Read(data).
RandRead ==
  /\ pc = "randRead"
  /\ \E ok \in BOOLEAN :
       /\ trace' = Append(trace,
            Ev("rand", ok, "rand", Pass, j, 0,
               BufferSize(j, fileSize, numChunks), 0))
       /\ IF ok
          THEN /\ pc' = "writeRandom"
               /\ UNCHANGED ret
          ELSE ReturnError("error generating random data")
  /\ UNCHANGED << logFile, logOutput, logHandle, randomBytes, unix,
                  filePath, passes, fs, handle, pos, fileSize, numChunks,
                  totalSteps, currentStep, i, j, newPath, reported, logs >>

\* Lines 73-76: file.Write(data).  A failed write may have written a part.
WriteRandom ==
  /\ pc = "writeRandom"
  /\ LET n == BufferSize(j, fileSize, numChunks)
     IN  \/ /\ WriteBytes("rand", n, n)
            /\ pc' = "syncRandom"
            /\ UNCHANGED ret
         \/ /\ \E w \in {0, n \div 2} : WriteBytes("rand", n, w)
            /\ ReturnError("error writing random data")
  /\ UNCHANGED << logFile, logOutput, logHandle, randomBytes, unix,
                  filePath, passes, handle, fileSize, numChunks, totalSteps,
                  currentStep, i, j, newPath, reported, logs >>

\* Faulty variant of SyncRandom: the error of file.Sync() is not looked at.
SyncRandomIgnoresError ==
  /\ pc = "syncRandom"
  /\ \E ok \in BOOLEAN :
       trace' = Append(trace, Ev("sync", ok, "-", Pass, j, 0, 0, 0))
  /\ pc' = "progressRandom"
  /\ UNCHANGED << logFile, logOutput, logHandle, randomBytes, unix,
                  filePath, passes, fs, handle, pos, fileSize, numChunks,
                  totalSteps, currentStep, i, j, newPath, ret, reported,
                  logs >>

\* Lines 77-80: file.Sync().
SyncRandom ==
  /\ pc = "syncRandom"
  /\ \E ok \in BOOLEAN :
       /\ trace' = Append(trace, Ev("sync", ok, "-", Pass, j, 0, 0, 0))
       /\ IF ok
          THEN /\ pc' = "progressRandom"
               /\ UNCHANGED ret
          ELSE ReturnError("error syncing file after writing random data")
  /\ UNCHANGED << logFile, logOutput, logHandle, randomBytes, unix,
                  filePath, passes, fs, handle, pos, fileSize, numChunks,
                  totalSteps, currentStep, i, j, newPath, reported, logs >>

\* Lines 82-86: currentStep++, the progress callback, the next window.
ProgressRandom ==
  /\ pc = "progressRandom"
  /\ ReportStep
  /\ AfterRandomChunk
  /\ UNCHANGED << logFile, logOutput, logHandle, randomBytes, unix,
                  filePath, passes, fs, handle, pos, fileSize, numChunks,
                  totalSteps, newPath, ret, logs >>

\* Lines 89-94: file.Seek(0, io.SeekStart) before the zero pass.
SeekZero ==
  /\ pc = "seekZero"
  /\ \E ok \in BOOLEAN :
       /\ trace' = Append(trace, Ev("seek", ok, "-", Pass, 0, 0, 0, 0))
       /\ IF ok
          THEN /\ pos' = 0
               /\ j' = 0
               /\ pc' = IF 0 < numChunks THEN "writeZero" ELSE "close"
               /\ UNCHANGED ret
          ELSE /\ ReturnError("error seeking file before zeroing")
               /\ UNCHANGED << pos, j >>
  /\ UNCHANGED << logFile, logOutput, logHandle, randomBytes, unix,
                  filePath, passes, fs, handle, fileSize, numChunks,
                  totalSteps, currentStep, i, newPath, reported, logs >>

\* Lines 96-107: file.Write(zeroBuffer[:bufferSize]).
WriteZero ==
  /\ pc = "writeZero"
  /\ LET n == BufferSize(j, fileSize, numChunks)
     IN  \/ /\ WriteBytes("zero", n, n)
            /\ pc' = "syncZero"
            /\ UNCHANGED ret
         \/ /\ \E w \in {0, n \div 2} : WriteBytes("zero", n, w)
            /\ ReturnError("error writing zeros")
  /\ UNCHANGED << logFile, logOutput, logHandle, randomBytes, unix,
                  filePath, passes, handle, fileSize, numChunks, totalSteps,
                  currentStep, i, j, newPath, reported, logs >>

\* Lines 108-111: file.Sync().
SyncZero ==
  /\ pc = "syncZero"
  /\ \E ok \in BOOLEAN :
       /\ trace' = Append(trace, Ev("sync", ok, "-", Pass, j, 0, 0, 0))
       /\ IF ok
          THEN /\ pc' = "progressZero"
               /\ UNCHANGED ret
          ELSE ReturnError("error syncing file after writing zeros")
  /\ UNCHANGED << logFile, logOutput, logHandle, randomBytes, unix,
                  filePath, passes, fs, handle, pos, fileSize, numChunks,
                  totalSteps, currentStep, i, j, newPath, reported, logs >>

\* Lines 113-117: currentStep++, the progress callback, the next window.
ProgressZero ==
  /\ pc = "progressZero"
  /\ ReportStep
  /\ AfterZeroChunk
  /\ UNCHANGED << logFile, logOutput, logHandle, randomBytes, unix,
                  filePath, passes, fs, handle, pos, fileSize, numChunks,
                  totalSteps, newPath, ret, logs >>

\* Faulty variant of Close: the error of file.Close() is not looked at.
CloseIgnoresError ==
  /\ pc = "close"
  /\ handle' = "closed"
  /\ \E ok \in BOOLEAN : trace' = Append(trace, Call("close", ok))
  /\ pc' = "truncate"
  /\ UNCHANGED << logFile, logOutput, logHandle, randomBytes, unix,
                  filePath, passes, fs, pos, fileSize, numChunks, totalSteps,
                  currentStep, i, j, newPath, ret, reported, logs >>

\* Lines 119-121: file.Close().  The handle is closed whatever close returns.
Close ==
  /\ pc = "close"
  /\ handle' = "closed"
  /\ \E ok \in BOOLEAN :
       /\ trace' = Append(trace, Call("close", ok))
       /\ IF ok
          THEN /\ pc' = "truncate"
               /\ UNCHANGED ret
          ELSE ReturnError("error closing file before final operations")
  /\ UNCHANGED << logFile, logOutput, logHandle, randomBytes, unix,
                  filePath, passes, fs, pos, fileSize, numChunks, totalSteps,
                  currentStep, i, j, newPath, reported, logs >>

\* Lines 123-126: os.Truncate(filePath, 0).
Truncate ==
  /\ pc = "truncate"
  /\ \E ok \in BOOLEAN :
       /\ trace' = Append(trace,
            Ev("truncate", ok, "-", 0, 0, 0, 0, 0))
       /\ IF ok
          THEN /\ fs' = Store(filePath, << >>)
               /\ pc' = "newName"
               /\ UNCHANGED ret
          ELSE /\ ReturnError("error truncating file")
               /\ UNCHANGED fs
  /\ UNCHANGED << logFile, logOutput, logHandle, randomBytes, unix,
                  filePath, passes, handle, pos, fileSize, numChunks,
                  totalSteps, currentStep, i, j, newPath, reported, logs >>

\* Faulty variant of NewName: the new name keeps the original file name.
NewNameKeepsOriginal ==
  /\ pc = "newName"
  /\ trace' = Append(trace,
        Ev("rand", TRUE, "name", 0, 0, 0, randomBytesLen, 0))
  /\ \E bytes \in RandomSources, now \in Timestamps :
       /\ randomBytes' = bytes
       /\ unix' = now
       /\ newPath' = Join(Dir(filePath),
                          filePath[Len(filePath)] \o NewFileName(now, bytes))
  /\ pc' = "rename"
  /\ UNCHANGED << logFile, logOutput, logHandle,
                  ret, filePath, passes, fs, handle, pos, fileSize, numChunks,
                  totalSteps, currentStep, i, j, reported, logs >>

\* Lines 129-141: rand.Read(randomBytes), time.Now().Unix() and the new path.
NewName ==
  /\ pc = "newName"
  /\ \/ /\ trace' = Append(trace,
             Ev("rand", TRUE, "name", 0, 0, 0, randomBytesLen, 0))
        /\ \E bytes \in RandomSources, now \in Timestamps :
             /\ randomBytes' = bytes
             /\ unix' = now
             /\ newPath' = Join(Dir(filePath), NewFileName(now, bytes))
        /\ pc' = "rename"
        /\ UNCHANGED ret
     \/ /\ trace' = Append(trace,
             Ev("rand", FALSE, "name", 0, 0, 0, randomBytesLen, 0))
        /\ ReturnError("error generating random bytes for new file name")
        /\ UNCHANGED << newPath, randomBytes, unix >>
  /\ UNCHANGED << logFile, logOutput, logHandle,
                  filePath, passes, fs, handle, pos, fileSize, numChunks,
                  totalSteps, currentStep, i, j, reported, logs >>

\* Lines 143-148: os.Rename(filePath, newPath).
Rename ==
  /\ pc = "rename"
  /\ \E ok \in BOOLEAN :
       /\ trace' = Append(trace, Call("rename", ok))
       /\ IF ok
          THEN /\ fs' = Renamed(filePath, newPath)
               /\ logs' = Append(logs, "Redacted")
               /\ pc' = "progress100"
               /\ UNCHANGED ret
          ELSE /\ ReturnError("error renaming file")
               /\ UNCHANGED << fs, logs >>
  /\ UNCHANGED << logFile, logOutput, logHandle, randomBytes, unix,
                  filePath, passes, handle, pos, fileSize, numChunks,
                  totalSteps, currentStep, i, j, newPath, reported >>

\* Lines 150-154: progressCallback(100) and return true, newPath, nil.
Progress100 ==
  /\ pc = "progress100"
  /\ reported' = Append(reported, 100)
  /\ trace' = Append(trace, Ev("progress", TRUE, "final", 0, 0, 0, 0, 100))
  /\ ret' = [success |-> TRUE, path |-> newPath, err |-> "nil"]
  /\ pc' = "deferClose"
  /\ UNCHANGED << logFile, logOutput, logHandle, randomBytes, unix,
                  filePath, passes, fs, handle, pos, fileSize, numChunks,
                  totalSteps, currentStep, i, j, newPath, logs >>

\* Lines 34-38: the deferred file.Close(), run on every return after the
\* open.  Close on a handle that is closed already returns os.ErrClosed and
\* closes nothing.
DeferClose ==
  /\ pc = "deferClose"
  /\ handle' = "closed"
  /\ IF handle = "open"
     THEN \E ok \in BOOLEAN :
            /\ trace' = Append(trace,
                 Ev("close", ok, "deferred", 0, 0, 0, 0, 0))
            /\ logs' = IF ok THEN logs ELSE Append(logs, "Error closing file")
     ELSE /\ trace' = Append(trace,
               Ev("close", FALSE, "ErrClosed", 0, 0, 0, 0, 0))
          /\ logs' = Append(logs, "Error closing file")
  /\ pc' = "shredCheck"
  /\ UNCHANGED << logFile, logOutput, logHandle, randomBytes, unix,
                  filePath, passes, fs, pos, fileSize, numChunks, totalSteps,
                  currentStep, i, j, newPath, ret, reported >>

(***************************************************************************)
(* shred, lines 158-192.                                                   *)
(***************************************************************************)
\* Faulty variant of ShredCheck: the error is logged and shred goes on.
ShredCheckNotFatal ==
  /\ pc = "shredCheck"
  /\ logs' = Append(logs,
       IF ret.err # "nil" THEN "File shredding failed"
       ELSE "File shredded successfully")
  /\ pc' = IF ret.err # "nil" THEN "remove" ELSE "statOriginal"
  /\ UNCHANGED << logFile, logOutput, logHandle, randomBytes, unix,
                  filePath, passes, fs, handle, pos, fileSize, numChunks,
                  totalSteps, currentStep, i, j, newPath, ret, reported,
                  trace >>

\* Lines 167-175 and 181-183: log.Fatalf ends the process on an error.
ShredCheck ==
  /\ pc = "shredCheck"
  /\ IF ret.err # "nil"
     THEN /\ logs' = Append(logs, "File shredding failed")
          /\ pc' = "exit"
     ELSE IF ret.success
     THEN /\ logs' = Append(logs, "File shredded successfully")
          /\ pc' = "statOriginal"
     ELSE /\ logs' = Append(logs, "File shredding failed for")
          /\ pc' = "done"
  /\ UNCHANGED << logFile, logOutput, logHandle, randomBytes, unix,
                  filePath, passes, fs, handle, pos, fileSize, numChunks,
                  totalSteps, currentStep, i, j, newPath, ret, reported,
                  trace >>

\* Lines 176-180: os.Stat(filePath) of the original path.
StatOriginal ==
  /\ pc = "statOriginal"
  /\ \E ok \in BOOLEAN :
       /\ trace' = Append(trace,
            Ev("stat", ok /\ Exists(filePath), "original", 0, 0, 0, 0, 0))
       /\ logs' = Append(logs,
            IF ~ok \/ Exists(filePath)
            THEN "Warning: Original file still exists"
            ELSE "Original file no longer exists")
  /\ pc' = "remove"
  /\ UNCHANGED << logFile, logOutput, logHandle, randomBytes, unix,
                  filePath, passes, fs, handle, pos, fileSize, numChunks,
                  totalSteps, currentStep, i, j, newPath, ret, reported >>

\* Lines 185-191: os.Remove(newPath); its error is logged only.
Remove ==
  /\ pc = "remove"
  /\ \E ok \in BOOLEAN :
       /\ trace' = Append(trace, Call("remove", ok))
       /\ IF ok
          THEN /\ fs' = Removed(ret.path)
               /\ logs' = Append(logs, "Cleaned up renamed file")
          ELSE /\ logs' = Append(logs, "Error removing renamed file")
               /\ UNCHANGED fs
  /\ pc' = "done"
  /\ UNCHANGED << logFile, logOutput, logHandle, randomBytes, unix,
                  filePath, passes, handle, pos, fileSize, numChunks,
                  totalSteps, currentStep, i, j, newPath, ret, reported >>

Next ==
  \/ Stat
  \/ Open
  \/ SeekRandom
  \/ RandRead
  \/ WriteRandom
  \/ SyncRandom
  \/ ProgressRandom
  \/ SeekZero
  \/ WriteZero
  \/ SyncZero
  \/ ProgressZero
  \/ Close
  \/ Truncate
  \/ NewName
  \/ Rename
  \/ Progress100
  \/ DeferClose
  \/ ShredCheck
  \/ StatOriginal
  \/ Remove

Spec == Init /\ [][Next]_vars

(***************************************************************************)
(* The same program on calls with many passes: 50 steps in all.            *)
(***************************************************************************)
\* Calls of shred with (passes + 1) * numChunks = 50.
LongRuns ==
  { [passes |-> 24, len |-> 2 * chunkSize],
    [passes |-> 49, len |-> 10] }

InitLong ==
  /\ pc = "stat"
  /\ filePath \in Paths
  /\ \E run \in LongRuns :
       /\ passes = run.passes
       /\ \/ fs = << >>
          \/ fs = [p \in {filePath} |-> Merge(<<Run(run.len, "orig")>>)]
  /\ handle = "none"
  /\ pos = 0
  /\ fileSize = 0
  /\ numChunks = 0
  /\ totalSteps = 0
  /\ currentStep = 0
  /\ i = 0
  /\ j = 0
  /\ newPath = << >>
  /\ randomBytes = << >>
  /\ unix = 0
  /\ ret = NoResult
  /\ reported = << >>
  /\ trace = << >>
  /\ logs = << >>
  /\ logFile = "nil"
  /\ logOutput = "stderr"
  /\ logHandle = "none"

SpecLong == InitLong /\ [][Next]_vars

(***************************************************************************)
(* The host's use of the library: init_logger, shred, close_logger.        *)
(***************************************************************************)
InitLogger ==
  /\ pc = "init_logger"
  /\ filePath \in Paths
  /\ passes \in 0..MaxPasses
  /\ \/ fs = << >>
     \/ \E len \in Lengths :
          fs = [p \in {filePath} |-> Merge(<<Run(len, "orig")>>)]
  /\ handle = "none"
  /\ pos = 0
  /\ fileSize = 0
  /\ numChunks = 0
  /\ totalSteps = 0
  /\ currentStep = 0
  /\ i = 0
  /\ j = 0
  /\ newPath = << >>
  /\ randomBytes = << >>
  /\ unix = 0
  /\ ret = NoResult
  /\ reported = << >>
  /\ trace = << >>
  /\ logs = << >>
  /\ logFile = "nil"
  /\ logOutput = "stderr"
  /\ logHandle = "none"

\* Lines 195-201: "logFile, err := os.OpenFile(...)" declares a local logFile;
\* the package variable of line 17 is not assigned.
init_logger ==
  /\ pc = "init_logger"
  /\ \E ok \in BOOLEAN :
       IF ok
       THEN /\ logHandle' = "open"
            /\ logOutput' = "shredder.log"
            /\ pc' = "stat"
            /\ UNCHANGED logs
       ELSE /\ logs' = Append(logs, "Failed to open log file")
            /\ pc' = "exit"
            /\ UNCHANGED << logHandle, logOutput >>
  /\ UNCHANGED << logFile, randomBytes, unix, filePath, passes, fs, handle,
                  pos, fileSize, numChunks, totalSteps, currentStep, i, j,
                  newPath, ret, reported, trace >>

\* Lines 204-208: closes the file the package variable refers to, if any.
close_logger ==
  /\ pc = "done"
  /\ IF logFile # "nil"
     THEN logHandle' = "closed"
     ELSE UNCHANGED logHandle
  /\ pc' = "loggerClosed"
  /\ UNCHANGED << logFile, logOutput, randomBytes, unix, filePath, passes,
                  fs, handle, pos, fileSize, numChunks, totalSteps,
                  currentStep, i, j, newPath, ret, reported, trace, logs >>

NextLogger ==
  \/ init_logger
  \/ Next
  \/ close_logger

SpecLogger == InitLogger /\ [][NextLogger]_vars

(***************************************************************************)
(* Properties.                                                             *)
(***************************************************************************)
Max(a, b) == IF a >= b THEN a ELSE b

\* ceil(a / b) for a >= 0, b > 0, by its defining inequalities.
CeilDiv(a, b) ==
  CHOOSE n \in 0..((a \div b) + 1) : (n - 1) * b < a /\ a <= n * b

\* SecureShredFile has evaluated a return statement.
Returned == ret # NoResult

\* SecureShredFile returned (true, newPath, nil).
Succeeded == ret.success /\ ret.err = "nil"

Last(s) == s[Len(s)]

\* The indices of the calls of trace that satisfy Is.
Calls(Is(_)) == {x \in 1..Len(trace) : Is(trace[x])}

IsChunkProgress(e) == e.op = "progress" /\ e.tag = "chunk"
IsFinalProgress(e) == e.op = "progress" /\ e.tag = "final"
IsWrite(e) == e.op = "write"
IsRandomWrite(e) == e.op = "write" /\ e.tag = "rand"
IsZeroWrite(e) == e.op = "write" /\ e.tag = "zero"
IsRemove(e) == e.op = "remove"

\* shred has ended after os.Remove returned nil / an error.
RemoveSucceeded ==
  pc = "done" /\ Len(trace) > 0 /\ Last(trace) = Call("remove", TRUE)
RemoveFailed ==
  pc = "done" /\ Len(trace) > 0 /\ Last(trace) = Call("remove", FALSE)

\* C1 as stated: after a successful call with the default deletion policy
\* neither the original path nor the returned final path exists.
C1_NeitherPathExists ==
  (pc = "done" /\ Succeeded) => ~Exists(filePath) /\ ~Exists(ret.path)

\* C1, amended: after a successful call with the default deletion policy the
\* original path does not exist, and the returned final path does not exist
\* either when the final delete did not fail.
C1_NeitherPathExistsUnlessDeleteFailed ==
  (pc = "done" /\ Succeeded) =>
    /\ ~Exists(filePath)
    /\ RemoveSucceeded => ~Exists(ret.path)

C1_Witness ==
  /\ pc = "done"
  /\ Succeeded
  /\ RemoveSucceeded
  /\ DOMAIN fs = {}
  /\ passes = 2
  /\ fileSize = 150000

\* C2: a call in which no step fails invokes the progress callback
\* N * numChunks + numChunks times for chunk writes, numChunks =
\* max(1, ceil(L / C)), and once more at the very end.
C2_CallbackCount ==
  Succeeded =>
    LET nc == Max(1, CeilDiv(fileSize, chunkSize))
    IN  /\ Cardinality(Calls(IsChunkProgress)) = passes * nc + nc
        /\ Cardinality(Calls(IsFinalProgress)) = 1
        /\ Len(reported) = passes * nc + nc + 1
        /\ \A x \in Calls(IsChunkProgress), y \in Calls(IsFinalProgress) : x < y

C2_Witness ==
  /\ Succeeded
  /\ passes = 3
  /\ fileSize = 150000
  /\ Len(reported) = 13

\* C3: the percentages passed to the progress callback are non-decreasing,
\* each lies in 0..100, and on a successful call the last one is 100.
C3_ProgressMonotone ==
  /\ \A x \in 1..Len(reported) : 0 <= reported[x] /\ reported[x] <= 100
  /\ \A x \in 1..(Len(reported) - 1) : reported[x] <= reported[x + 1]
  /\ Succeeded => Len(reported) > 0 /\ Last(reported) = 100

C3_Witness ==
  /\ Succeeded
  /\ reported = <<33, 66, 100, 100>>

\* The planner contract: the number of windows of a file of length len and
\* the length of window w.
PlanChunks(len) == Max(1, CeilDiv(len, chunkSize))

PlanLength(w, len) ==
  LET l == IF w = PlanChunks(len) - 1 /\ len % chunkSize # 0
           THEN len % chunkSize ELSE chunkSize
  IN  IF l = 0 THEN chunkSize ELSE l

\* The lengths of the writes of pass p, in the order of the writes.
RECURSIVE LengthsOf(_)
LengthsOf(es) ==
  IF es = << >> THEN << >> ELSE <<es[1].len>> \o LengthsOf(Tail(es))

WriteLengths(p) ==
  LengthsOf(SelectSeq(trace, LAMBDA e : e.op = "write" /\ e.pass = p))

\* Pass p has written and synced its last window.
PassDone(p) ==
  \E x \in 1..Len(trace) :
    /\ trace[x].op = "progress"
    /\ trace[x].pass = p
    /\ trace[x].win = numChunks - 1

\* C4: the chunk plan is that of the planner contract and the same in every
\* pass: numChunks = max(1, ceil(L / C)) windows; window j has length C, the
\* last one L mod C when that is not 0; no write of length 0 is issued.
C4_ChunkPlan ==
  /\ handle # "none" => numChunks = PlanChunks(fileSize)
  /\ \A x \in Calls(IsWrite) :
       /\ trace[x].win \in 0..(PlanChunks(fileSize) - 1)
       /\ trace[x].len = PlanLength(trace[x].win, fileSize)
       /\ trace[x].len > 0
  /\ \A p \in 1..(passes + 1) :
       PassDone(p) =>
         WriteLengths(p) =
           [w \in 1..PlanChunks(fileSize) |-> PlanLength(w - 1, fileSize)]
  /\ fileSize = 150000 /\ PassDone(1) =>
       WriteLengths(1) = <<65536, 65536, 18928>>
  /\ fileSize = 0 /\ PassDone(1) => WriteLengths(1) = <<chunkSize>>

C4_Witness ==
  /\ Succeeded
  /\ passes = 2
  /\ fileSize = 150000
  /\ WriteLengths(1) = <<65536, 65536, 18928>>
  /\ WriteLengths(2) = WriteLengths(1)
  /\ WriteLengths(3) = WriteLengths(1)

C4_WitnessEmptyFile ==
  /\ Succeeded
  /\ fileSize = 0
  /\ passes = 1
  /\ WriteLengths(2) = <<65536>>

\* The overwrite loops have ended without an error: line 119 is reached.
OverwriteDone ==
  \/ pc = "close"
  \/ \E x \in 1..Len(trace) : trace[x].op = "close" /\ trace[x].tag = "-"

\* C5: a call that does not abort performs exactly one zero pass, which
\* starts only after all N random passes have completed, also when N = 0,
\* and then no random write occurs at all.
C5_OneZeroPassLast ==
  /\ \A x \in Calls(IsZeroWrite) :
       /\ trace[x].pass = passes + 1
       /\ \A p \in 1..passes : PassDone(p)
       /\ Cardinality({y \in Calls(IsChunkProgress) :
                          y < x /\ trace[y].pass <= passes})
            = passes * numChunks
       /\ \A y \in Calls(IsRandomWrite) : y < x /\ trace[y].ok
  /\ OverwriteDone =>
       /\ Cardinality(Calls(IsZeroWrite)) = numChunks
       /\ \A x \in Calls(IsZeroWrite) : trace[x].ok
       /\ \A w \in 0..(numChunks - 1) :
            Cardinality({x \in Calls(IsZeroWrite) : trace[x].win = w}) = 1
       /\ Cardinality(Calls(IsRandomWrite)) = passes * numChunks
  /\ passes = 0 =>
       /\ Calls(IsRandomWrite) = {}
       /\ \A x \in 1..Len(trace) : trace[x].tag # "rand"

C5_Witness ==
  /\ Succeeded
  /\ passes = 0
  /\ fileSize = 10
  /\ WriteLengths(1) = <<10>>
  /\ Cardinality(Calls(IsZeroWrite)) = 1
  /\ RemoveSucceeded

C5_WitnessAfterRandom ==
  /\ OverwriteDone
  /\ passes = 3
  /\ numChunks = 3
  /\ Cardinality(Calls(IsRandomWrite)) = 9
  /\ Cardinality(Calls(IsZeroWrite)) = 3

\* C6: the step counter is incremented and the progress callback invoked for
\* a chunk only after the write of that chunk and its sync have both
\* succeeded; a chunk whose write or sync failed or has not happened is
\* never counted.
C6_ProgressOnlyAfterSync ==
  /\ \A x \in Calls(IsChunkProgress) :
       /\ x >= 3
       /\ trace[x - 1].op = "sync" /\ trace[x - 1].ok
       /\ trace[x - 2].op = "write" /\ trace[x - 2].ok
       /\ trace[x - 2].val = trace[x - 2].len
       /\ trace[x - 1].pass = trace[x].pass /\ trace[x - 1].win = trace[x].win
       /\ trace[x - 2].pass = trace[x].pass /\ trace[x - 2].win = trace[x].win
  /\ currentStep = Cardinality(Calls(IsChunkProgress))
  /\ currentStep =
       Cardinality({x \in 2..Len(trace) :
                      /\ trace[x].op = "sync" /\ trace[x].ok
                      /\ trace[x - 1].op = "write" /\ trace[x - 1].ok})
         - (IF pc \in {"progressRandom", "progressZero"} THEN 1 ELSE 0)

C6_Witness ==
  /\ currentStep = 2
  /\ Len(reported) = 2
  /\ Len(trace) > 0
  /\ Last(trace).op = "sync"
  /\ ~Last(trace).ok
  /\ pc = "deferClose"

\* The calls of the body of SecureShredFile that can fail: all but the
\* deferred close, and the calls shred makes after the return.
IsBodyStep(e) ==
  /\ e.op \in {"stat", "open", "seek", "rand", "write", "sync", "close",
               "truncate", "rename"}
  /\ e.tag \notin {"deferred", "ErrClosed", "original"}

IsDeferredClose(e) == e.op = "close" /\ e.tag \in {"deferred", "ErrClosed"}

\* C7: when stat, open, seek, random generation, write, sync, close,
\* truncate or rename fails, SecureShredFile returns failure at once: no
\* write, sync, truncate, rename or progress callback follows (the deferred
\* close alone does), and the failed call is not made again (the deferred
\* close after a failed close finds the handle closed and closes nothing).
C7_FailureIsTerminal ==
  \A x \in 1..Len(trace) :
    IsBodyStep(trace[x]) /\ ~trace[x].ok =>
      /\ Returned
      /\ ~ret.success
      /\ ret.err \notin {"nil", "pending"}
      /\ pc \in {"deferClose", "shredCheck", "exit"}
      /\ Len(trace) <= x + 1
      /\ \A y \in (x + 1)..Len(trace) :
           /\ IsDeferredClose(trace[y])
           /\ trace[x].op = "close" => trace[y].tag = "ErrClosed"

C7_Witness ==
  /\ pc = "exit"
  /\ passes = 2
  /\ Len(trace) > 2
  /\ trace[Len(trace) - 1].op = "write"
  /\ trace[Len(trace) - 1].pass = 2
  /\ ~trace[Len(trace) - 1].ok
  /\ Last(trace).tag = "deferred"

C7_WitnessCloseFails ==
  /\ pc = "exit"
  /\ Len(trace) > 2
  /\ trace[Len(trace) - 1] = Call("close", FALSE)
  /\ Last(trace).tag = "ErrClosed"

IsBodyClose(e) == e.op = "close" /\ e.tag = "-"
IsTruncate(e) == e.op = "truncate"
IsRename(e) == e.op = "rename"
IsFinalizerStep(e) ==
  IsBodyClose(e) \/ IsTruncate(e) \/ IsRename(e) \/ IsFinalProgress(e)
    \/ IsRemove(e)

\* C8: the finalizer steps happen only after all N random passes and the
\* zero pass have completed without error, in the order close, truncate,
\* rename, terminal progress 100, delete, each at most once and none unless
\* every earlier one succeeded.
C8_FinalizerOrder ==
  /\ \A x \in Calls(IsFinalizerStep) :
       /\ \A p \in 1..(passes + 1) : PassDone(p)
       /\ Cardinality({y \in Calls(IsChunkProgress) : y < x})
            = passes * numChunks + numChunks
       /\ \A y \in 1..(x - 1) : IsBodyStep(trace[y]) => trace[y].ok
  /\ Cardinality(Calls(IsBodyClose)) <= 1
  /\ Cardinality(Calls(IsTruncate)) <= 1
  /\ Cardinality(Calls(IsRename)) <= 1
  /\ Cardinality(Calls(IsFinalProgress)) <= 1
  /\ Cardinality(Calls(IsRemove)) <= 1
  /\ \A x \in Calls(IsBodyClose) : x > 1 /\ IsChunkProgress(trace[x - 1])
  /\ \A x \in Calls(IsTruncate) : x > 1 /\ trace[x - 1] = Call("close", TRUE)
  /\ \A x \in Calls(IsRename) :
       /\ x > 2
       /\ trace[x - 1].op = "rand" /\ trace[x - 1].tag = "name"
       /\ trace[x - 1].ok
       /\ trace[x - 2].op = "truncate" /\ trace[x - 2].ok
  /\ \A x \in Calls(IsFinalProgress) :
       x > 1 /\ trace[x - 1] = Call("rename", TRUE)
  /\ \A x \in Calls(IsRemove) :
       /\ x > 3
       /\ IsFinalProgress(trace[x - 3])
       /\ IsDeferredClose(trace[x - 2])
       /\ trace[x - 1].op = "stat" /\ trace[x - 1].tag = "original"

C8_Witness ==
  /\ RemoveSucceeded
  /\ passes = 3
  /\ fileSize = 150000
  /\ Cardinality(Calls(IsFinalizerStep)) = 5

\* C9: on every return of SecureShredFile success is true exactly when the
\* error is nil; on success the final path is the path the file was renamed
\* to, in the parent directory of the original path; on failure it is empty.
C9_ResultConsistent ==
  /\ Returned <=>
       pc \in {"deferClose", "shredCheck", "statOriginal", "remove", "done",
               "exit"}
  /\ Returned => (ret.success <=> ret.err = "nil")
  /\ Returned /\ ret.success =>
       /\ ret.path = newPath
       /\ Len(ret.path) > 0
       /\ Dir(ret.path) = Dir(filePath)
       /\ ret.path # filePath
       /\ \E x \in Calls(IsRename) : trace[x].ok
       /\ pc # "done" => Exists(ret.path) /\ ~Exists(filePath)
  /\ Returned /\ ~ret.success =>
       /\ ret.path = << >>
       /\ \A x \in Calls(IsRename) : ~trace[x].ok

C9_Witness ==
  /\ pc = "shredCheck"
  /\ Succeeded
  /\ Len(filePath) = 2
  /\ Dir(ret.path) = << <<"h", "o", "m", "e">> >>
  /\ Exists(ret.path)

C9_WitnessFailure ==
  /\ pc = "shredCheck"
  /\ ~ret.success
  /\ ret.err = "error truncating file"
  /\ ret.path = << >>

\* C10: when the final delete fails the operation still reports success, the
\* deletion error is reported apart and is not fatal, and the end state is an
\* empty file at the obfuscated path and no file at the original path.
C10_DeleteFailureNotFatal ==
  RemoveFailed =>
    /\ Succeeded
    /\ \E x \in 1..Len(logs) : logs[x] = "File shredded successfully"
    /\ \A x \in 1..Len(logs) : logs[x] # "File shredding failed"
    /\ Last(logs) = "Error removing renamed file"
    /\ DOMAIN fs = {ret.path}
    /\ Size(fs[ret.path]) = 0
    /\ ~Exists(filePath)

C10_Witness ==
  /\ RemoveFailed
  /\ passes = 3
  /\ fileSize = 150000
  /\ Exists(newPath)

\* os.Rename has returned an error.
RenameFailed == \E x \in Calls(IsRename) : ~trace[x].ok

\* C11: when the rename fails the operation returns failure and the file
\* stays at its original path under its original name with length 0; no file
\* is at the obfuscated path, the terminal 100 is not reported and no delete
\* is attempted.
C11_RenameFailureLeavesEmptyOriginal ==
  RenameFailed =>
    /\ Returned
    /\ ~ret.success
    /\ ret.err = "error renaming file"
    /\ pc \in {"deferClose", "shredCheck", "exit"}
    /\ DOMAIN fs = {filePath}
    /\ Size(fs[filePath]) = 0
    /\ ~Exists(newPath)
    /\ Calls(IsFinalProgress) = {}
    /\ Len(reported) = passes * numChunks + numChunks
    /\ Calls(IsRemove) = {}

C11_Witness ==
  /\ RenameFailed
  /\ pc = "exit"
  /\ passes = 2
  /\ fileSize = 150000
  /\ Len(newPath) > 0
  /\ Last(reported) = 100

IsSeek(e) == e.op = "seek"
IsSync(e) == e.op = "sync"

\* C12: every pass begins with the offset reset to 0, window j of a pass is
\* written at offset j * C, so the writes of a pass are at strictly
\* increasing offsets, and pass p + 1 issues no write before the last window
\* of pass p is written and synced.
C12_SequentialPasses ==
  /\ \A x \in Calls(IsWrite) :
       /\ trace[x].off = trace[x].win * chunkSize
       /\ \E y \in Calls(IsSeek) :
            /\ y < x
            /\ trace[y].ok
            /\ trace[y].pass = trace[x].pass
            /\ \A z \in (y + 1)..(x - 1) : trace[z].pass = trace[x].pass
       /\ trace[x].win = 0 =>
            \E y \in {x - 1, x - 2} :
              y >= 1 /\ IsSeek(trace[y]) /\ trace[y].ok
  /\ \A x, y \in Calls(IsWrite) :
       /\ x < y /\ trace[x].pass = trace[y].pass =>
            /\ trace[x].off < trace[y].off
            /\ trace[x].win < trace[y].win
       /\ x < y => trace[x].pass <= trace[y].pass
       /\ trace[x].pass < trace[y].pass =>
            /\ x < y
            /\ \E z \in Calls(IsSync) :
                 /\ z < y
                 /\ trace[z].ok
                 /\ trace[z].pass = trace[x].pass
                 /\ trace[z].win = numChunks - 1
                 /\ trace[z - 1].op = "write" /\ trace[z - 1].ok
  /\ Cardinality({x \in Calls(IsSeek) : trace[x].ok}) <= passes + 1

C12_Witness ==
  /\ OverwriteDone
  /\ passes = 2
  /\ fileSize = 150000
  /\ \E x \in Calls(IsWrite) :
       trace[x].pass = 3 /\ trace[x].win = 2 /\ trace[x].off = 131072

\* The writes of pass p, in order.
WritesOf(p) == SelectSeq(trace, LAMBDA e : e.op = "write" /\ e.pass = p)

\* The windows ws cover the bytes 0..len-1 without a gap or an overlap.
Tiles(ws, len) ==
  /\ Len(ws) > 0
  /\ ws[1].off = 0
  /\ \A k \in 1..(Len(ws) - 1) : ws[k + 1].off = ws[k].off + ws[k].len
  /\ Last(ws).off + Last(ws).len = len

StatSucceeded == Len(trace) > 0 /\ trace[1] = Call("stat", TRUE)
Truncated == \E x \in Calls(IsTruncate) : trace[x].ok
Renamed_ == \E x \in Calls(IsRename) : trace[x].ok

\* C13: for L > 0 the windows of every pass tile the bytes 0..L-1 exactly, so
\* every byte is overwritten in every pass and the length of the file stays
\* L during the overwrite passes; for L = 0 the one window writes C bytes
\* and the file has length C until it is truncated.
C13_WindowsTileFile ==
  /\ \A p \in 1..(passes + 1) :
       PassDone(p) =>
         Tiles(WritesOf(p), IF fileSize > 0 THEN fileSize ELSE chunkSize)
  /\ StatSucceeded /\ fileSize > 0 /\ ~Truncated =>
       Size(fs[filePath]) = fileSize
  /\ StatSucceeded /\ fileSize = 0 /\ ~Truncated =>
       /\ Size(fs[filePath]) <= chunkSize
       /\ (\E x \in Calls(IsWrite) : trace[x].ok) =>
            Size(fs[filePath]) = chunkSize
       /\ Calls(IsWrite) = {} => Size(fs[filePath]) = 0
  /\ Truncated /\ ~Renamed_ => Size(fs[filePath]) = 0
  /\ pc \in {"seekRandom", "seekZero"} /\ i >= 1 =>
       fs[filePath] =
         <<Run(IF fileSize > 0 THEN fileSize ELSE chunkSize, "rand")>>
  /\ pc = "close" =>
       fs[filePath] =
         <<Run(IF fileSize > 0 THEN fileSize ELSE chunkSize, "zero")>>

C13_Witness ==
  /\ pc = "seekZero"
  /\ passes = 2
  /\ fileSize = 150000
  /\ fs[filePath] = <<Run(150000, "rand")>>
  /\ Tiles(WritesOf(2), 150000)

C13_WitnessEmptyFile ==
  /\ pc = "close"
  /\ fileSize = 0
  /\ passes = 1
  /\ Size(fs[filePath]) = 65536

AllZero(c) == \A x \in 1..Len(c) : c[x].kind = "zero"

\* C14: when the file is truncated every byte of it is zero, no original and
\* no random byte remains, and when it is renamed its length is 0.
C14_ZeroBeforeTruncate ==
  /\ pc = "truncate" =>
       /\ Exists(filePath)
       /\ AllZero(fs[filePath])
       /\ Size(fs[filePath]) = (IF fileSize > 0 THEN fileSize ELSE chunkSize)
  /\ pc = "rename" =>
       /\ Exists(filePath)
       /\ Size(fs[filePath]) = 0
  /\ \A x \in Calls(IsRename) :
       /\ \E y \in Calls(IsTruncate) : y < x /\ trace[y].ok
       /\ trace[x].ok /\ Exists(newPath) => Size(fs[newPath]) = 0

C14_Witness ==
  /\ pc = "truncate"
  /\ passes = 3
  /\ fileSize = 150000
  /\ fs[filePath] = <<Run(150000, "zero")>>

C14_WitnessRename ==
  /\ pc = "rename"
  /\ passes = 0
  /\ fileSize = 10
  /\ fs[filePath] = << >>

\* C15: the total step count is fixed before the first write as
\* N * numChunks + numChunks and never changes; the value reported after the
\* k-th completed chunk write is floor(k * 100 / total), and the last chunk
\* of the zero pass reports exactly 100.
C15_ReportsFloorOfPercentage ==
  /\ handle # "none" => totalSteps = passes * numChunks + numChunks
  /\ \A k \in 1..currentStep : reported[k] = (k * 100) \div totalSteps
  /\ currentStep >= 1 /\ currentStep = totalSteps => reported[currentStep] = 100

\* C16: the new file name is determined by the Unix timestamp and the 32
\* random bytes alone (the same for every original name, content, length and
\* pass count), and the new path lies in the directory of the original path.
C16_NameFromTimestampAndRandomBytes ==
  /\ newPath # << >> =>
       /\ Len(randomBytes) = randomBytesLen
       /\ Last(newPath) = NewFileName(unix, randomBytes)
       /\ Len(newPath) = Len(filePath)
       /\ SubSeq(newPath, 1, Len(newPath) - 1)
            = SubSeq(filePath, 1, Len(filePath) - 1)
  /\ ret.success => ret.path = newPath /\ newPath # << >>
  /\ \A x \in Calls(IsRename) : newPath # << >>

C16_Witness ==
  /\ ret.success
  /\ Len(filePath) = 2
  /\ passes > 0
  /\ fileSize > chunkSize
  /\ Last(newPath) = NewFileName(unix, randomBytes)

C16_WitnessBareName ==
  /\ ret.success
  /\ Len(filePath) = 1
  /\ passes = 0
  /\ fileSize = 0
  /\ Last(newPath) = NewFileName(unix, randomBytes)

\* C17: after init_logger has opened the log file, the package variable
\* logFile refers to that file, and a call of close_logger closes it.
C17_CloseLoggerClosesLogFile ==
  /\ logHandle # "none" => logFile = logOutput
  /\ pc = "loggerClosed" /\ logHandle # "none" => logHandle = "closed"

IsClose(e) == e.op = "close"
IsHandleUse(e) == e.op \in {"close", "seek", "write", "sync"}

\* C18: on every return of SecureShredFile after a successful open, Close
\* has been invoked on the handle exactly once; the handle is not left open,
\* it is not closed or used again after a close, and truncate and rename are
\* issued only after the handle was closed.
C18_ClosedExactlyOnce ==
  /\ Returned /\ handle # "none" /\ pc # "deferClose" =>
       /\ handle = "closed"
       /\ Cardinality(Calls(IsClose)) = 1
  /\ \A x \in Calls(IsClose) :
       \A y \in (x + 1)..Len(trace) : ~IsHandleUse(trace[y])
  /\ \A x \in Calls(IsTruncate) \cup Calls(IsRename) :
       \E y \in Calls(IsClose) : y < x

====
